---- MODULE Spec2Model ----
(***************************************************************************)
(* The coarse/fine solution comparison driver (src/unnamed/part_000,       *)
(* main): the variable-name check, the octree build, the error-metric pass *)
(* over the fine mesh's quadrature points and the nodal-difference pass    *)
(* over the fine mesh's nodes, both with the "look in the last coarse      *)
(* element first" lookup in front of OctTree::find_element.                *)
(*                                                                         *)
(* Number/Real are modelled by integers.  A Point is modelled by what the  *)
(* driver can observe of it: the set of coarse elements whose              *)
(* contains_point accepts it, and whether the octree's root region bounds  *)
(* it.  The values the finite-element library returns (phi, JxW, shape at  *)
(* the inverse-mapped point) are inputs of the step that reads them.       *)
(***************************************************************************)
EXTENDS Integers, Sequences, FiniteSets, TLC

VARIABLES
  pc,                \* position of main()
  coarse_var_names,  \* std::vector<std::string> read with the coarse solution
  fine_var_names,    \* std::vector<std::string> read with the fine solution
  coarse_solution,   \* flat vector, node-major
  fine_solution,     \* flat vector, node-major
  diff_solution,     \* flat vector, sized like fine_solution
  fine_node,         \* mesh_fine.elem(e)->node(i), as [e][i]
  ivar,              \* atoi(argv[1])
  octree_built,      \* octree_coarse has been constructed
  coarse_element,    \* the remembered coarse element (NULL or an element index)
  fe_coarse,         \* the element fe_coarse was last reinit()ed for
  error,             \* Number error
  fine_soln,         \* fine_soln of the current quadrature point
  JxW,               \* JxW[gp] of the current quadrature point
  e,                 \* fine element loop index
  gp,                \* quadrature point loop index
  n,                 \* local node loop index of the nodal pass
  p,                 \* the current query point (q_point[gp] or mesh_fine.point(gn))
  already_done,      \* std::vector<unsigned char> already_done
  phi,               \* phi[.][gp] of the current quadrature point
  searched,          \* history: find_element was called for the current query point
  reported,          \* what "Computed error=" printed, or NotYet
  plot,              \* what TecplotIO wrote to foo.plt, or NotYet
  visited,           \* history: the (e, gp) pairs that have contributed to error
  processed,         \* history: per fine node, the (e, n) positions at which it was processed
  identical,         \* the coarse mesh and field are the fine mesh and field
  runs,              \* how many times the error-metric pass is executed on these inputs
  run,               \* which execution this is
  first_error,       \* history: what the first execution reported
  tape,              \* the library's answers so far, kept while a second execution may ask again
  my_origin,         \* InfHex8: this->origin()
  point,             \* InfHex8: this->point(i) of the base nodes 0..3
  query,             \* InfHex8::contains_point: the argument p of the last call
  tol,               \* InfHex8::contains_point: the argument tol of the last call
  mapped_point,      \* InfHex8::contains_point: what inverse_map returned in the last call
  contained,         \* InfHex8::contains_point: what the last call returned
  inverse_map_calls, \* history: calls of FEInterface::inverse_map, as <<p, tol>>
  ncsettings_text,   \* ncsettings: the settings text, as its newline-terminated lines
  lines,             \* ncsettings: static char** lines; <<>> is NULL, <<ls>> points to ls
  map,               \* ncsettings: static char** map; <<>> is NULL, <<slots>> points to slots
  asked,             \* ncsettings: the key of the last nc_settings call
  returned           \* ncsettings: how the last call ended

vars == <<pc, coarse_var_names, fine_var_names, coarse_solution, fine_solution,
          diff_solution, fine_node, ivar, octree_built, coarse_element, fe_coarse,
          error, fine_soln, JxW, e, gp, n, p, already_done, searched,
          phi, reported, plot, visited, processed, identical, runs, run,
          first_error, tape,
          my_origin, point, query, tol, mapped_point, contained, inverse_map_calls,
          ncsettings_text, lines, map, asked, returned>>

\* The state of the units main() does not touch.
infhex8 == <<my_origin, point, query, tol, mapped_point, contained, inverse_map_calls>>
ncsettings == <<ncsettings_text, lines, map, asked, returned>>
elsewhere == <<infhex8, ncsettings>>

\* ---------------------------------------------------------------- bounds

NElem == 2     \* elements of each mesh
NQp == 2       \* quadrature points per fine element
NLoc == 2      \* nodes (shape functions) per element

NULL == -1     \* the null Elem*: no element index
NaN == -1      \* sqrt of a negative number: no square root
NotYet == <<>> \* nothing printed or written so far; <<v>> once v is

Elems == 0 .. NElem - 1
Loc == 0 .. NLoc - 1
n_nodes == NElem + NLoc      \* nodes of each mesh (the last one belongs to no chain element)
Nodes == 0 .. n_nodes - 1

\* ---------------------------------------------------------------- inputs

\* The name lists a solution file can carry: one variable, two variables,
\* and the same two in the other order.
NameLists == { <<"u">>, <<"u", "v">>, <<"v", "u">> }

\* Field vectors of a given length: a uniform field, and one that changes
\* from node to node and from variable to variable.
Fields(len) ==
  { [i \in 1 .. len |-> 1], [i \in 1 .. len |-> (i \div 2) % 2] }

\* Connectivities of the fine mesh: a chain of elements sharing their end
\* nodes, the same chain numbered backwards, and elements stacked on the same
\* nodes.
Connectivities ==
  { [a \in Elems |-> [i \in Loc |-> a + i]],
    [a \in Elems |-> [i \in Loc |-> (NElem - 1 - a) + (NLoc - 1 - i)]],
    [a \in Elems |-> [i \in Loc |-> i]] }

\* mesh_coarse.elem(E)->node(i): the coarse mesh is a chain.
coarse_node(E, i) == E + i

\* What the library can return for a shape function or quadrature weight.
\* The shape functions of an element sum to one at every point: here one of
\* them is 1 and the others are 0.  A quadrature weight times the Jacobian is
\* positive, or negative on an inverted element.
Weights == {[i \in Loc |-> IF i = k THEN 1 ELSE 0] : k \in Loc}
JxWs == {-1, 1}

\* A point, as the coarse mesh sees it.
Points == {pt \in [inside : SUBSET Elems, inBox : BOOLEAN] : pt.inside = {} => ~pt.inBox}

NoPoint == [inside |-> {}, inBox |-> FALSE]
NoWeights == [i \in Loc |-> 0]

\* vec[idx] of a std::vector.
At(vec, idx) == vec[idx + 1]

\* ---------------------------------------------------------------- library

\* OctTree::find_element.  The tree is built with at most 100 elements per
\* bin (line 89), so for the meshes here it is the single root bin: the
\* result is the first element, in mesh order, whose contains_point accepts
\* the point, if the root region bounds the point, and NULL otherwise.
find_element(pt) ==
  IF pt.inBox /\ pt.inside # {}
    THEN CHOOSE E \in pt.inside : \A F \in pt.inside : E <= F
    ELSE NULL

\* Elem::contains_point, as the library answers it for this point
contains_point(E, pt) == E \in pt.inside

ISqrt(x) ==
  IF x < 0 THEN NaN ELSE CHOOSE r \in 0 .. x : r * r <= x /\ x < (r + 1) * (r + 1)

\* An answer of the library for `key`: any value of S the first time, the
\* same value whenever the same question is asked again.
Answers(key, S) == IF key \in DOMAIN tape THEN {tape[key]} ELSE S
Keep(t, key, v) ==
  IF runs > 1 /\ run = 1 /\ key \notin DOMAIN t THEN (key :> v) @@ t ELSE t

\* ---------------------------------------------------------------- helpers

RECURSIVE SumTo(_, _)
\* f[0] + ... + f[k-1]
SumTo(f, k) == IF k = 0 THEN 0 ELSE SumTo(f, k - 1) + f[k - 1]

\* for (i = 0; i < n_shape_functions; i++) soln += solution[gn*nv + var]*shape_i
\* with gn = nodeOf[i], the global node number of local node i.
Interpolate(solution, nodeOf, nv, var, shape) ==
  SumTo([i \in Loc |-> At(solution, nodeOf[i] * nv + var) * shape[i]], NLoc)

coarse_nodes(E) == [i \in Loc |-> coarse_node(E, i)]

\* Faulty variant: the assert compares only the number of names
NamesAgreeBySize == Len(fine_var_names) = Len(coarse_var_names)

\* assert (fine_var_names == coarse_var_names)
NamesAgree == fine_var_names = coarse_var_names

\* Faulty variant: the remembered element is never tested against the point
LookupKeep(cur, pt) == [elem |-> cur, hit |-> TRUE]

\* Faulty variant: the octree is searched for every point
LookupAlways(cur, pt) == [elem |-> find_element(pt), hit |-> FALSE]

\* Faulty variant: a failed search falls back on the remembered element
LookupFallback(cur, pt) ==
  IF contains_point(cur, pt) THEN [elem |-> cur, hit |-> TRUE]
  ELSE IF find_element(pt) = NULL THEN [elem |-> cur, hit |-> FALSE]
  ELSE [elem |-> find_element(pt), hit |-> FALSE]

\* The lookup both passes use: the remembered element if it contains the
\* point, else what find_element returns.
Lookup(cur, pt) ==
  IF contains_point(cur, pt)
    THEN [elem |-> cur, hit |-> TRUE]
    ELSE [elem |-> find_element(pt), hit |-> FALSE]

\* Faulty variant: = in place of +=
AccumulateOverwrite(err, w, cs, fs) == w * (cs - fs) * (cs - fs)

\* error += JxW[gp]*(coarse_soln - fine_soln)*(coarse_soln - fine_soln)
Accumulate(err, w, cs, fs) == err + w * (cs - fs) * (cs - fs)

\* Faulty variant: the pass starts from whatever element is remembered
StaleElement == IF coarse_element = NULL THEN 0 ELSE coarse_element

\* Elem* coarse_element = mesh_coarse.elem(0)
InitialElement == 0

\* What the library may answer in this execution.  When the error-metric
\* pass is executed twice the answers are kept, and fewer are offered: the
\* points are bounded by the octree, and the quadrature points of one fine
\* element lie in the same coarse elements.
WeightsIn == IF runs = 1 THEN Weights ELSE {[i \in Loc |-> IF i = 0 THEN 1 ELSE 0]}
JxWsIn == IF runs = 1 THEN JxWs ELSE {1}
PointsIn == IF runs = 1 THEN Points ELSE {pt \in Points : pt.inBox}

\* With identical meshes a quadrature point of fine element a lies in coarse
\* element a alone, and the coarse shape functions there are the fine ones.
QPointAnswers(a, g) ==
  IF identical THEN {[inside |-> {a}, inBox |-> TRUE]}
  ELSE Answers(<<"q_point", a, 0, 0>>, PointsIn)

ShapeAnswers(a, g, E) ==
  IF identical /\ E = a THEN {phi}
  ELSE Answers(<<"shape", a, g, E>>, WeightsIn)

\* With identical meshes node gn lies in the elements it is a node of, and
\* the shape function of a node is 1 at that node and 0 at the others.
NodePointAnswers(gn) ==
  IF identical
    THEN {[inside |-> {E \in Elems : \E i \in Loc : coarse_node(E, i) = gn},
           inBox |-> TRUE]}
    ELSE PointsIn

NodeShapeAnswers(gn, E) ==
  IF identical /\ (\E i \in Loc : coarse_node(E, i) = gn)
    THEN {[i \in Loc |-> IF coarse_node(E, i) = gn THEN 1 ELSE 0]}
    ELSE WeightsIn

\* ---------------------------------------------------------------- units at rest

\* An InfHex8 on which contains_point has not been called.
InfHex8Idle ==
  /\ my_origin = <<0, 0, 0>>
  /\ point = [i \in 0 .. 3 |-> <<0, 0, 0>>]
  /\ query = <<0, 0, 0>>
  /\ tol = 0
  /\ mapped_point = <<0, 0, 0>>
  /\ contained = NotYet
  /\ inverse_map_calls = <<>>

\* ncsettings before any call, with an empty settings text.
NcSettingsIdle ==
  /\ ncsettings_text = <<>>
  /\ lines = <<>>
  /\ map = <<>>
  /\ asked = <<>>
  /\ returned = [kind |-> "none", text |-> <<>>, stray |-> FALSE]

ElsewhereIdle == InfHex8Idle /\ NcSettingsIdle

\* ---------------------------------------------------------------- initial states

InitProgram ==
  /\ pc = "start"
  /\ diff_solution = <<>>
  /\ octree_built = FALSE
  /\ coarse_element = NULL
  /\ fe_coarse = NULL
  /\ error = 0
  /\ fine_soln = 0
  /\ JxW = 0
  /\ e = 0
  /\ gp = 0
  /\ n = 0
  /\ p = NoPoint
  /\ phi = NoWeights
  /\ already_done = <<>>
  /\ searched = FALSE
  /\ reported = NotYet
  /\ plot = NotYet
  /\ visited = <<>>
  /\ processed = [gn \in Nodes |-> <<>>]
  /\ run = 1
  /\ first_error = NotYet
  /\ tape = [k \in {} |-> 0]

\* main() not started.
MainIdle ==
  /\ InitProgram
  /\ coarse_var_names = <<"u">>
  /\ fine_var_names = <<"u">>
  /\ coarse_solution = [i \in 1 .. n_nodes |-> 1]
  /\ fine_solution = [i \in 1 .. n_nodes |-> 1]
  /\ fine_node = [a \in Elems |-> [i \in Loc |-> a + i]]
  /\ ivar = 0
  /\ identical = FALSE
  /\ runs = 1

\* Everything main() holds.
mainvars == <<pc, coarse_var_names, fine_var_names, coarse_solution, fine_solution,
              fine_node, ivar, identical, runs, diff_solution, octree_built,
              coarse_element, fe_coarse, error, fine_soln, JxW, e, gp, n, p,
              already_done, searched, phi, reported, plot, visited, processed, run,
              first_error, tape>>

\* Any two solution files on any of the meshes; ivar names a variable of the
\* fine field.
InitInputs ==
  /\ coarse_var_names \in NameLists
  /\ fine_var_names \in NameLists
  /\ coarse_solution \in Fields(n_nodes * Len(coarse_var_names))
  /\ fine_solution \in Fields(n_nodes * Len(fine_var_names))
  /\ fine_node \in Connectivities
  /\ ivar \in 0 .. Len(fine_var_names) - 1

Init ==
  /\ InitProgram
  /\ ElsewhereIdle
  /\ InitInputs
  /\ identical = FALSE
  /\ runs = 1

\* The same mesh and the same solution file given as coarse and as fine.
InitSame ==
  /\ InitProgram
  /\ ElsewhereIdle
  /\ fine_var_names \in NameLists
  /\ coarse_var_names = fine_var_names
  /\ fine_solution \in Fields(n_nodes * Len(fine_var_names))
  /\ coarse_solution = fine_solution
  /\ fine_node = [a \in Elems |-> coarse_nodes(a)]
  /\ ivar \in 0 .. Len(fine_var_names) - 1
  /\ identical = TRUE
  /\ runs = 1

\* Any inputs on a chain mesh, on which the error-metric pass is executed
\* twice.
InitTwice ==
  /\ InitProgram
  /\ ElsewhereIdle
  /\ InitInputs
  /\ fine_node = [a \in Elems |-> coarse_nodes(a)]
  /\ identical = FALSE
  /\ runs = 2

\* ---------------------------------------------------------------- main()

\* What main() only reads.
inputs == <<coarse_var_names, fine_var_names, coarse_solution, fine_solution,
            fine_node, ivar, identical, runs>>

\* line 81; the asserts of lines 81, 180 and 247 are taken as compiled in
\* (no NDEBUG): a failed assert ends the run
CheckNames ==
  /\ pc = "start"
  /\ pc' = IF NamesAgree THEN "build" ELSE "aborted"
  /\ UNCHANGED <<inputs, elsewhere, diff_solution, octree_built, coarse_element, fe_coarse,
                 error, fine_soln, JxW, e, gp, n, p, already_done, searched, phi,
                 reported, plot, visited, processed, run, first_error, tape>>

\* lines 84-92
BuildOctree ==
  /\ pc = "build"
  /\ diff_solution' = [i \in 1 .. Len(fine_solution) |-> 0]
  /\ octree_built' = TRUE
  /\ pc' = "pass_init"
  /\ UNCHANGED <<inputs, elsewhere, coarse_element, fe_coarse,
                 error, fine_soln, JxW, e, gp, n, p, already_done, searched, phi,
                 reported, plot, visited, processed, run, first_error, tape>>

\* lines 136-145
StartErrorPass ==
  /\ pc = "pass_init"
  /\ error' = 0
  /\ coarse_element' = InitialElement
  /\ fe_coarse' = InitialElement
  /\ e' = 0
  /\ gp' = 0
  /\ pc' = "fine_eval"
  /\ UNCHANGED <<inputs, elsewhere, diff_solution, octree_built,
                 fine_soln, JxW, n, p, already_done, searched, phi,
                 reported, plot, visited, processed, run, first_error, tape>>

\* lines 155-167, with the phi[.][gp] and JxW[gp] fe_fine holds for this point
FineEval ==
  /\ pc = "fine_eval"
  /\ \E w \in Answers(<<"phi", e, gp, 0>>, WeightsIn),
        j \in Answers(<<"JxW", e, gp, 0>>, JxWsIn) :
       /\ phi' = w
       /\ JxW' = j
       /\ fine_soln' = Interpolate(fine_solution, fine_node[e],
                                   Len(fine_var_names), ivar, w)
       /\ tape' = Keep(Keep(tape, <<"phi", e, gp, 0>>, w), <<"JxW", e, gp, 0>>, j)
  /\ pc' = "locate"
  /\ UNCHANGED <<inputs, elsewhere, diff_solution, octree_built, coarse_element, fe_coarse,
                 error, e, gp, n, p, already_done, searched,
                 reported, plot, visited, processed, run, first_error>>

\* Faulty variant: the result of find_element is not stored
LocatedStale(pt, next) ==
  LET r == Lookup(coarse_element, pt) IN
  /\ p' = pt
  /\ coarse_element' = IF r.elem = NULL THEN NULL ELSE coarse_element
  /\ searched' = ~r.hit
  /\ fe_coarse' = IF r.hit \/ r.elem = NULL THEN fe_coarse ELSE r.elem
  /\ pc' = IF r.elem = NULL THEN "aborted" ELSE next

\* The effect of the if-block of lines 173-187 and of lines 240-254 on the
\* remembered element, the projector and the position.
Located(pt, next) ==
  LET r == Lookup(coarse_element, pt) IN
  /\ p' = pt
  /\ coarse_element' = r.elem
  /\ searched' = ~r.hit
  /\ fe_coarse' = IF r.hit \/ r.elem = NULL THEN fe_coarse ELSE r.elem
  /\ pc' = IF r.elem = NULL THEN "aborted" ELSE next

\* lines 173-187
Locate ==
  /\ pc = "locate"
  /\ \E pt \in QPointAnswers(e, gp) :
       /\ Located(pt, "interp")
       /\ tape' = Keep(tape, <<"q_point", e, 0, 0>>, pt)
  /\ UNCHANGED <<inputs, elsewhere, diff_solution, octree_built,
                 error, fine_soln, JxW, e, gp, n, already_done, phi,
                 reported, plot, visited, processed, run, first_error>>

\* The position after quadrature point gp of fine element e (lines 145, 155).
NextQp == IF gp + 1 < NQp THEN [e |-> e, gp |-> gp + 1] ELSE [e |-> e + 1, gp |-> 0]

\* lines 192-212; fine_soln and coarse_soln end with the loop body, and there
\* is no current quadrature point until the next one
Interp ==
  /\ pc = "interp"
  /\ \E shape \in ShapeAnswers(e, gp, coarse_element) :
       LET coarse_soln == Interpolate(coarse_solution, coarse_nodes(coarse_element),
                                      Len(coarse_var_names), ivar, shape)
       IN /\ error' = Accumulate(error, JxW, coarse_soln, fine_soln)
          /\ tape' = Keep(tape, <<"shape", e, gp, coarse_element>>, shape)
  /\ visited' = Append(visited, <<e, gp>>)
  /\ e' = NextQp.e
  /\ gp' = NextQp.gp
  /\ pc' = IF NextQp.e < NElem THEN "fine_eval" ELSE "report"
  /\ fine_soln' = 0
  /\ JxW' = 0
  /\ phi' = NoWeights
  /\ p' = NoPoint
  /\ searched' = FALSE
  /\ UNCHANGED <<inputs, elsewhere, diff_solution, octree_built, coarse_element, fe_coarse,
                 n, already_done, reported, plot, processed, run, first_error>>

\* lines 214-217
Report ==
  /\ pc = "report"
  /\ error' = ISqrt(error)
  /\ reported' = <<ISqrt(error)>>
  /\ pc' = "nodal_init"
  /\ UNCHANGED <<inputs, elsewhere, diff_solution, octree_built, coarse_element, fe_coarse,
                 fine_soln, JxW, e, gp, n, p, already_done, searched, phi,
                 plot, visited, processed, run, first_error, tape>>

\* lines 221-229
StartNodalPass ==
  /\ pc = "nodal_init"
  /\ already_done' = [gn \in Nodes |-> 0]
  /\ coarse_element' = InitialElement
  /\ e' = 0
  /\ n' = 0
  /\ pc' = "node"
  /\ UNCHANGED <<inputs, elsewhere, diff_solution, octree_built, fe_coarse,
                 error, fine_soln, JxW, gp, p, searched, phi,
                 reported, plot, visited, processed, run, first_error, tape>>

\* The position after local node n of fine element e (lines 229-230).
NextNode == IF n + 1 < NLoc THEN [e |-> e, n |-> n + 1] ELSE [e |-> e + 1, n |-> 0]

\* Faulty variant: the marker is never set
MarkNothing(done, gn) == done

\* already_done[gn] = 1
MarkDone(done, gn) == [done EXCEPT ![gn] = 1]

\* lines 232-254
Node ==
  /\ pc = "node"
  /\ LET gn == fine_node[e][n] IN
       IF already_done[gn] # 0
         THEN /\ e' = NextNode.e
              /\ n' = NextNode.n
              /\ pc' = IF NextNode.e < NElem THEN "node" ELSE "write"
              /\ UNCHANGED <<already_done, p, coarse_element, searched, fe_coarse>>
         ELSE /\ already_done' = MarkDone(already_done, gn)
              /\ \E pt \in NodePointAnswers(gn) : Located(pt, "node_interp")
              /\ UNCHANGED <<e, n>>
  /\ UNCHANGED <<inputs, elsewhere, diff_solution, octree_built,
                 error, fine_soln, JxW, gp, phi,
                 reported, plot, visited, processed, run, first_error, tape>>

\* Faulty variant: the node number is not scaled by the number of variables
IndexUnscaled(gn, nv, c) == gn + c

\* The index of variable c of node gn in a node-major vector of nv variables.
Index(gn, nv, c) == gn * nv + c

\* lines 258-270: diff_solution with the nv entries of node gn written.
WithDifferences(diff, gn, nv, shape) ==
  [k \in 1 .. Len(diff) |->
     IF \E c \in 0 .. nv - 1 : k = Index(gn, nv, c) + 1
       THEN LET c == CHOOSE c \in 0 .. nv - 1 : k = Index(gn, nv, c) + 1
            IN Interpolate(coarse_solution, coarse_nodes(coarse_element), nv, c, shape)
                 - At(fine_solution, Index(gn, nv, c))
       ELSE diff[k]]

\* lines 256-272
NodeInterp ==
  /\ pc = "node_interp"
  /\ LET gn == fine_node[e][n] IN
       /\ \E shape \in NodeShapeAnswers(gn, coarse_element) :
            diff_solution' = WithDifferences(diff_solution, gn, Len(fine_var_names), shape)
       /\ processed' = [processed EXCEPT ![gn] = Append(@, <<e, n>>)]
  /\ e' = NextNode.e
  /\ n' = NextNode.n
  /\ pc' = IF NextNode.e < NElem THEN "node" ELSE "write"
  /\ p' = NoPoint
  /\ searched' = FALSE
  /\ UNCHANGED <<inputs, elsewhere, octree_built, coarse_element, fe_coarse,
                 error, fine_soln, JxW, gp, already_done, phi,
                 reported, plot, visited, run, first_error, tape>>

\* lines 276-277
WritePlot ==
  /\ pc = "write"
  /\ plot' = <<diff_solution>>
  /\ pc' = "done"
  /\ UNCHANGED <<inputs, elsewhere, diff_solution, octree_built, coarse_element, fe_coarse,
                 error, fine_soln, JxW, e, gp, n, p, already_done, searched, phi,
                 reported, visited, processed, run, first_error, tape>>

\* The error-metric pass (lines 136-217) is executed again on the same
\* inputs; whatever the first execution left in the variables is still there.
Rerun ==
  /\ pc = "nodal_init"
  /\ run < runs
  /\ run' = run + 1
  /\ first_error' = reported
  /\ reported' = NotYet
  /\ visited' = <<>>
  /\ pc' = "pass_init"
  /\ UNCHANGED <<inputs, elsewhere, diff_solution, octree_built, coarse_element, fe_coarse,
                 error, fine_soln, JxW, e, gp, n, p, already_done, searched, phi,
                 plot, processed, tape>>

Next ==
  \/ CheckNames
  \/ BuildOctree
  \/ StartErrorPass
  \/ FineEval
  \/ Locate
  \/ Interp
  \/ Report
  \/ StartNodalPass
  \/ Node
  \/ NodeInterp
  \/ WritePlot

Spec == Init /\ [][Next]_vars

SpecSame == InitSame /\ [][Next]_vars

\* The run up to the report of the error, and its second execution.
NextTwice ==
  \/ CheckNames
  \/ BuildOctree
  \/ StartErrorPass
  \/ FineEval
  \/ Locate
  \/ Interp
  \/ Report
  \/ Rerun

SpecTwice == InitTwice /\ [][NextTwice]_vars

\* ---------------------------------------------------------------- any ivar

\* atoi(argv[1]) is any integer: line 136 compares it with nothing.
Ivars == -1 .. 2

\* What a read past the end of a std::vector may yield when it yields a value.
Garbage == {0, 2}

\* 0 <= idx < vec.size()
InRange(vec, idx) == 0 <= idx /\ idx < Len(vec)

\* vec[idx]: the element, or for an index out of range any value.
Reads(vec, idx) == IF InRange(vec, idx) THEN {At(vec, idx)} ELSE Garbage

\* The values the loop of Interpolate can compute, whatever var is.
InterpolateAny(solution, nodeOf, nv, var, shape) ==
  { SumTo([i \in Loc |-> vals[i] * shape[i]], NLoc) :
      vals \in { v \in [Loc -> Garbage \cup {0, 1}] :
                   \A i \in Loc : v[i] \in Reads(solution, Index(nodeOf[i], nv, var)) } }

\* The field-vector accesses of the step main() takes from its position, as
\* <<vector, index>>: lines 165, 199 and 262-269.
Accesses ==
  IF pc = "fine_eval"
    THEN { <<fine_solution, Index(fine_node[e][i], Len(fine_var_names), ivar)>> : i \in Loc }
  ELSE IF pc = "interp"
    THEN { <<coarse_solution, Index(coarse_node(coarse_element, i), Len(coarse_var_names), ivar)>> :
             i \in Loc }
  ELSE IF pc = "node_interp"
    THEN LET nv == Len(fine_var_names)
             gn == fine_node[e][n]
         IN UNION { { <<coarse_solution, Index(coarse_node(coarse_element, i), nv, c)>> : i \in Loc }
                      \cup { <<fine_solution, Index(gn, nv, c)>>,
                             <<diff_solution, Index(gn, nv, c)>> } : c \in 0 .. nv - 1 }
  ELSE {}

AllInRange == \A a \in Accesses : InRange(a[1], a[2])

\* Any two solution files on any of the meshes, and any ivar.
InitAnyIvar ==
  /\ InitProgram
  /\ ElsewhereIdle
  /\ coarse_var_names \in NameLists
  /\ fine_var_names \in NameLists
  /\ coarse_solution \in Fields(n_nodes * Len(coarse_var_names))
  /\ fine_solution \in Fields(n_nodes * Len(fine_var_names))
  /\ fine_node \in Connectivities
  /\ ivar \in Ivars
  /\ identical = FALSE
  /\ runs = 1

\* lines 155-167 for any ivar: a read out of range ends the run or yields
\* some value
FineEvalAny ==
  /\ pc = "fine_eval"
  /\ \E w \in WeightsIn, j \in JxWsIn, fault \in BOOLEAN :
       IF fault /\ ~AllInRange
         THEN /\ pc' = "crashed"
              /\ UNCHANGED <<phi, JxW, fine_soln>>
         ELSE /\ phi' = w
              /\ JxW' = j
              /\ fine_soln' \in InterpolateAny(fine_solution, fine_node[e],
                                               Len(fine_var_names), ivar, w)
              /\ pc' = "locate"
  /\ UNCHANGED <<inputs, elsewhere, diff_solution, octree_built, coarse_element, fe_coarse,
                 error, e, gp, n, p, already_done, searched,
                 reported, plot, visited, processed, run, first_error, tape>>

\* lines 192-212 for any ivar
InterpAny ==
  /\ pc = "interp"
  /\ \E shape \in WeightsIn, fault \in BOOLEAN :
       IF fault /\ ~AllInRange
         THEN /\ pc' = "crashed"
              /\ UNCHANGED <<error, visited, e, gp, fine_soln, JxW, phi, p, searched>>
         ELSE /\ \E coarse_soln \in InterpolateAny(coarse_solution, coarse_nodes(coarse_element),
                                                   Len(coarse_var_names), ivar, shape) :
                   error' = Accumulate(error, JxW, coarse_soln, fine_soln)
              /\ visited' = Append(visited, <<e, gp>>)
              /\ e' = NextQp.e
              /\ gp' = NextQp.gp
              /\ pc' = IF NextQp.e < NElem THEN "fine_eval" ELSE "report"
              /\ fine_soln' = 0
              /\ JxW' = 0
              /\ phi' = NoWeights
              /\ p' = NoPoint
              /\ searched' = FALSE
  /\ UNCHANGED <<inputs, elsewhere, diff_solution, octree_built, coarse_element, fe_coarse,
                 n, already_done, reported, plot, processed, run, first_error, tape>>

NextAnyIvar ==
  \/ CheckNames
  \/ BuildOctree
  \/ StartErrorPass
  \/ FineEvalAny
  \/ Locate
  \/ InterpAny
  \/ Report
  \/ StartNodalPass
  \/ Node
  \/ NodeInterp
  \/ WritePlot

SpecAnyIvar == InitAnyIvar /\ [][NextAnyIvar]_vars

\* ---------------------------------------------------------------- InfHex8::contains_point

\* Coordinates of physical points are integers; reference coordinates and
\* tolerances are counted in tenths, so that the reference element reaches
\* from -RefOne to RefOne in each direction.
RefOne == 10

Origins == { <<0, 0, 0>>, <<1, 0, 0>> }
BaseNodes == { <<10, 1, 0>>, <<0, 11, 0>>, <<1, 0, 1>> }
QueryPoints == { <<0, 0, 0>>, <<1, 0, 0>>, <<9, 0, 0>>, <<10, 0, 0>>, <<10, 1, 0>>, <<0, 0, 12>> }
Tols == { 0, 1 }

\* What FEInterface::inverse_map can return.
MappedPoints == { <<0, 0, 0>>, <<10, -10, 10>>, <<11, 0, 0>>, <<0, -11, 0>>, <<0, 0, 12>> }

Minus(a, b) == <<a[1] - b[1], a[2] - b[2], a[3] - b[3]>>

\* Point::norm_sq
norm_sq(v) == v[1] * v[1] + v[2] * v[2] + v[3] * v[3]

\* std::min
Min(a, b) == IF b < a THEN b ELSE a

\* lines 204-207, in hundredths
min_distance_sq ==
  100 * Min(norm_sq(Minus(point[0], my_origin)),
            Min(norm_sq(Minus(point[1], my_origin)),
                Min(norm_sq(Minus(point[2], my_origin)),
                    norm_sq(Minus(point[3], my_origin)))))

\* Faulty variant: no allowable deviation
ExactDistSq(pt) == 100 * norm_sq(Minus(pt, my_origin))

\* line 213: 1.01 * (Point(p-my_origin).norm_sq()), in hundredths
conservative_p_dist_sq(pt) == 101 * norm_sq(Minus(pt, my_origin))

\* FEInterface::on_reference_element for an INFHEX8: every reference
\* coordinate within the tolerance of [-1, 1].
on_reference_element(mp, eps) ==
  \A k \in 1 .. 3 : -RefOne - eps <= mp[k] /\ mp[k] <= RefOne + eps

\* An InfHex8 with any origin and any base nodes.
InitInfHex8 ==
  /\ MainIdle
  /\ NcSettingsIdle
  /\ my_origin \in Origins
  /\ point \in [0 .. 3 -> BaseNodes]
  /\ query = <<0, 0, 0>>
  /\ tol = 0
  /\ mapped_point = <<0, 0, 0>>
  /\ contained = NotYet
  /\ inverse_map_calls = <<>>

\* lines 182-241: one call of contains_point(p, tol)
ContainsPoint ==
  /\ \E pt \in QueryPoints, eps \in Tols, mp \in MappedPoints :
       /\ query' = pt
       /\ tol' = eps
       /\ IF conservative_p_dist_sq(pt) < min_distance_sq
            THEN /\ contained' = <<FALSE>>
                 /\ inverse_map_calls' = <<>>
                 /\ mapped_point' = <<0, 0, 0>>
            ELSE /\ inverse_map_calls' = << <<pt, eps>> >>
                 /\ mapped_point' = mp
                 /\ contained' = <<on_reference_element(mp, eps)>>
  /\ UNCHANGED <<my_origin, point, mainvars, ncsettings>>

NextInfHex8 == ContainsPoint

SpecInfHex8 == InitInfHex8 /\ [][NextInfHex8]_vars

\* ---------------------------------------------------------------- ncsettings

MaxLines == 2     \* lines of the settings text

\* A line is the sequence of its characters.  The lines a settings text is
\* made of: "k:v", "K : v", "v:", "k" (a key line with no ':'), "#k", " v:k",
\* the empty line and ":v".
LineTexts ==
  { <<"k", ":", "v">>, <<"K", " ", ":", " ", "v">>, <<"v", ":">>, <<"k">>,
    <<"#", "k">>, <<" ", "v", ":", "k">>, <<>>, <<":", "v">> }

\* #define KEYCHARS1, as far as the characters above go
KEYCHARS1 == { "k", "K", "v" }

\* The keys nc_settings is asked for.
Keys == { <<"k">>, <<"K">>, <<"v">> }

RECURSIVE DropLeading(_)
\* the line from its first non-blank on
DropLeading(line) ==
  IF line # <<>> /\ Head(line) = " " THEN DropLeading(Tail(line)) ELSE line

RECURSIVE DropTrailing(_)
\* the line up to its last non-blank
DropTrailing(line) ==
  IF line # <<>> /\ line[Len(line)] = " "
    THEN DropTrailing(SubSeq(line, 1, Len(line) - 1))
    ELSE line

\* The settings texts: up to MaxLines lines.  (A first line of blanks only
\* makes line 218 read in front of the buffer; such texts are left out.)
Texts ==
  { t \in UNION { [1 .. k -> LineTexts] : k \in 0 .. MaxLines } :
      Len(t) > 0 => DropLeading(t[1]) # <<>> }

\* lines 178-232: the lines without their leading and trailing blanks
preprocess(text) == [i \in 1 .. Len(text) |-> DropTrailing(DropLeading(text[i]))]

\* strchr(line, c): the position of the first c in line, 0 for NULL
strchr(line, c) ==
  IF \E i \in 1 .. Len(line) : line[i] = c
    THEN CHOOSE i \in 1 .. Len(line) : line[i] = c /\ \A j \in 1 .. i - 1 : line[j] # c
    ELSE 0

\* lines 161-171
iskeyline(line) ==
  IF Len(line) = 0 THEN FALSE
  ELSE IF line[1] = "#" \/ line[1] = " " THEN FALSE
  ELSE line[1] \in KEYCHARS1

\* tolower
Lower(c) == IF c = "K" THEN "k" ELSE c

\* strcasecmp(a, b): 0 when equal without regard to case
strcasecmp(a, b) ==
  IF Len(a) = Len(b) /\ \A i \in 1 .. Len(a) : Lower(a[i]) = Lower(b[i]) THEN 0 ELSE 1

\* The slots of the malloc'ed map: as malloc left it, NULL, or a string.
Unassigned == [state |-> "unassigned", text |-> <<>>]
NullSlot == [state |-> "null", text |-> <<>>]
String(t) == [state |-> "string", text |-> t]

\* lines 115-158: whether parseline succeeds on the line, and the key and
\* value it stores.  The loop of line 131 starts on the ':' and ends there.
parseline(line) ==
  LET r == strchr(line, ":") IN
  IF r = 0 THEN [ok |-> FALSE, key |-> <<>>, value |-> <<>>]
  ELSE IF r = 1 THEN [ok |-> FALSE, key |-> <<>>, value |-> <<>>]
  ELSE [ok |-> TRUE,
        key |-> SubSeq(line, 1, r - 1),
        value |-> DropTrailing(DropLeading(SubSeq(line, r + 1, Len(line))))]

RECURSIVE Fill(_, _, _, _)
\* lines 102-109 from line i (counted from 1) and keypos on
Fill(slots, ls, i, keypos) ==
  IF i > Len(ls) THEN slots
  ELSE IF ~iskeyline(ls[i]) THEN Fill(slots, ls, i + 1, keypos)
  ELSE IF ~parseline(ls[i]).ok THEN slots
  ELSE Fill([slots EXCEPT ![keypos + 1] = String(parseline(ls[i]).key),
                          ![keypos + 2] = String(parseline(ls[i]).value)],
            ls, i + 1, keypos + 2)

\* lines 95-100: the map as malloc returns it, with the terminating NULL
FreshSlots(nkeys) ==
  [k \in 1 .. 2 * nkeys + 1 |-> IF k = 2 * nkeys + 1 THEN NullSlot ELSE Unassigned]

\* lines 77-109 after a successful malloc
ParsedSlots(ls) ==
  LET nkeys == Cardinality({i \in 1 .. Len(ls) : iskeyline(ls[i])})
  IN Fill(FreshSlots(nkeys), ls, 1, 0)

\* lines 68-110: the map parse() leaves
parse(text, mallocOk) == IF mallocOk THEN <<ParsedSlots(preprocess(text))>> ELSE <<>>

RECURSIVE Walk(_, _, _)
\* lines 45-51 from mapp = map + i on: what is returned, and whether a slot
\* was read that nothing had assigned
Walk(slots, i, k) ==
  IF slots[i + 1].state = "null" THEN [kind |-> "NULL", text |-> <<>>, stray |-> FALSE]
  ELSE IF slots[i + 1].state = "unassigned" THEN [kind |-> "stray", text |-> <<>>, stray |-> TRUE]
  ELSE IF strcasecmp(slots[i + 1].text, k) = 0
    THEN [kind |-> "value", text |-> slots[i + 2].text, stray |-> slots[i + 2].state # "string"]
  ELSE Walk(slots, i + 2, k)

\* How a read of an unassigned slot can end: a fault, or the bytes happen to
\* be a null pointer and the loop stops.
StrayOutcomes == { "fault", "NULL" }

\* Any settings text, before the first call.
InitNcSettings ==
  /\ MainIdle
  /\ InfHex8Idle
  /\ ncsettings_text \in Texts
  /\ lines = <<>>
  /\ map = <<>>
  /\ asked = <<>>
  /\ returned = [kind |-> "none", text |-> <<>>, stray |-> FALSE]

\* lines 39-52
nc_settings ==
  /\ returned.kind # "fault"
  /\ \E k \in Keys, mallocOk \in BOOLEAN, out \in StrayOutcomes :
       LET m == IF map = <<>> THEN parse(ncsettings_text, mallocOk) ELSE map
           w == IF m = <<>> THEN [kind |-> "stray", text |-> <<>>, stray |-> TRUE]
                ELSE Walk(m[1], 0, k)
       IN /\ asked' = <<k>>
          /\ lines' = IF map = <<>> THEN <<preprocess(ncsettings_text)>> ELSE lines
          /\ map' = m
          /\ returned' = IF m = <<>> THEN [w EXCEPT !.kind = "fault"]
                         ELSE IF w.kind = "stray" THEN [w EXCEPT !.kind = out]
                         ELSE w
  /\ UNCHANGED <<ncsettings_text, mainvars, infhex8>>

\* lines 54-60
nc_settings_all ==
  /\ returned.kind # "fault"
  /\ \E mallocOk \in BOOLEAN :
       LET m == IF map = <<>> THEN parse(ncsettings_text, mallocOk) ELSE map
       IN /\ lines' = IF map = <<>> THEN <<preprocess(ncsettings_text)>> ELSE lines
          /\ map' = m
  /\ returned' = [kind |-> "all", text |-> <<>>, stray |-> FALSE]
  /\ UNCHANGED <<ncsettings_text, asked, mainvars, infhex8>>

\* lines 234-243
nc_settings_reclaim ==
  /\ returned.kind # "fault"
  /\ lines' = <<>>
  /\ map' = <<>>
  /\ returned' = [kind |-> "none", text |-> <<>>, stray |-> FALSE]
  /\ UNCHANGED <<ncsettings_text, asked, mainvars, infhex8>>

NextNcSettings ==
  \/ nc_settings
  \/ nc_settings_all
  \/ nc_settings_reclaim

SpecNcSettings == InitNcSettings /\ [][NextNcSettings]_vars

\* ---------------------------------------------------------------- properties

\* The positions at which inverse_map and the interpolation run.
AtInverseMap == pc \in {"interp", "node_interp"}

\* C1 as stated, already for the points the octree bounds: the element the
\* cached lookup yields for a point is the element a direct find_element call
\* on that point returns.
C1_SameAsFindElement ==
  (AtInverseMap /\ p.inBox) => coarse_element = find_element(p)

\* C1, amended: the cached lookup yields an element that contains the point;
\* it is what find_element returns whenever the octree was searched, and
\* whenever exactly one coarse element contains the point and the octree
\* bounds it.
C1_CachedLookup ==
  AtInverseMap =>
    /\ contains_point(coarse_element, p)
    /\ searched => coarse_element = find_element(p)
    /\ (Cardinality(p.inside) = 1 /\ p.inBox) => coarse_element = find_element(p)

\* A hit on a remembered element other than the initial one, for a point
\* that it alone contains.
C1_Witness ==
  /\ pc = "interp"
  /\ ~searched
  /\ coarse_element # InitialElement
  /\ p = [inside |-> {coarse_element}, inBox |-> TRUE]
  /\ coarse_element = find_element(p)

\* The run was aborted by the assert of line 180 or of line 247.
AbortedInPass == pc = "aborted" /\ octree_built
AbortedInErrorPass == AbortedInPass /\ already_done = <<>>
AbortedInNodalPass == AbortedInPass /\ already_done # <<>>

C2_AbortState ==
  /\ (searched /\ find_element(p) = NULL) => AbortedInPass
  /\ AtInverseMap => coarse_element # NULL
  /\ AbortedInPass => (coarse_element = NULL /\ plot = NotYet)
  /\ AbortedInErrorPass => reported = NotYet

C3_NameMismatchIsFatal ==
  fine_var_names # coarse_var_names =>
    /\ pc \in {"start", "aborted"}
    /\ ~octree_built
    /\ visited = <<>>
    /\ \A gn \in Nodes : processed[gn] = <<>>
    /\ p = NoPoint
    /\ reported = NotYet
    /\ plot = NotYet

\* The same names in another order: aborted.
C3_Witness ==
  /\ pc = "aborted"
  /\ ~octree_built
  /\ Len(fine_var_names) = Len(coarse_var_names)
  /\ fine_var_names # coarse_var_names

\* The (element, local node) positions of node gn, and the first of them in
\* iteration order.
Occurrences(gn) == {pos \in Elems \X Loc : fine_node[pos[1]][pos[2]] = gn}
FirstOccurrence(gn) ==
  CHOOSE pos \in Occurrences(gn) :
    \A q \in Occurrences(gn) : pos[1] < q[1] \/ (pos[1] = q[1] /\ pos[2] <= q[2])

C4_OnceState ==
  \A gn \in Nodes :
    /\ Len(processed[gn]) <= 1
    /\ processed[gn] # <<>> =>
         (Occurrences(gn) # {} /\ processed[gn][1] = FirstOccurrence(gn))
    /\ (pc \in {"write", "done"} /\ Occurrences(gn) # {}) => Len(processed[gn]) = 1

C4_MarkerStays ==
  \A gn \in DOMAIN already_done : already_done[gn] # 0 => already_done'[gn] # 0

\* C4: in a nodal pass that runs to its end every fine node some element
\* refers to is processed exactly once, at its first occurrence in the
\* (element, local node) order, and never a second time; a visited marker
\* that is set stays set.
C4_EachNodeOnce == [] C4_OnceState /\ [][C4_MarkerStays]_vars

\* The pass is over and a node shared by two elements was processed once.
C4_Witness ==
  /\ pc = "done"
  /\ \E gn \in Nodes : Cardinality(Occurrences(gn)) >= 2 /\ Len(processed[gn]) = 1
  /\ \E gn \in Nodes : Occurrences(gn) = {}

\* C5: with identical meshes and fields the reported error is zero and every
\* entry of the difference field is zero.
C5_IdenticalGivesZero ==
  identical =>
    /\ reported # NotYet => reported = <<0>>
    /\ \A k \in DOMAIN diff_solution : diff_solution[k] = 0
    /\ plot # NotYet => \A k \in DOMAIN plot[1] : plot[1][k] = 0

\* The run is over, on a field of two variables that is not constant.
C5_Witness ==
  /\ identical
  /\ pc = "done"
  /\ reported = <<0>>
  /\ plot # NotYet
  /\ Len(fine_var_names) = 2
  /\ \E k \in DOMAIN fine_solution : fine_solution[k] # fine_solution[1]

\* C6: the error-metric pass executed a second time on the same inputs, with
\* the library answering as it did the first time, reports the same error.
C6_SameErrorTwice ==
  (run = 2 /\ reported # NotYet) => reported = first_error

\* The second execution reported a non-zero error and ended on another
\* element than it began with.
C6_Witness ==
  /\ run = 2
  /\ reported # NotYet
  /\ reported[1] > 0
  /\ first_error = reported
  /\ coarse_element # InitialElement

\* A step that looks the current point up (lines 173-187, 240-254).
LookupStep ==
  \/ pc = "locate"
  \/ pc = "node" /\ already_done[fine_node[e][n]] = 0

\* C7: on a hit the lookup leaves the remembered element and the projector
\* as they are and does not call find_element; find_element is called exactly
\* when the remembered element fails the contains_point test.
C7_HitLeavesAllAlone ==
  [][LookupStep =>
       IF contains_point(coarse_element, p')
         THEN coarse_element' = coarse_element /\ fe_coarse' = fe_coarse /\ ~searched'
         ELSE searched']_vars

\* A hit on the remembered element for a point find_element would have
\* resolved to another element.
C7_Witness ==
  /\ pc = "node_interp"
  /\ ~searched
  /\ find_element(p) # NULL
  /\ find_element(p) # coarse_element

\* C8: whenever inverse_map and the interpolation run, the current coarse
\* element is not null and contains the query point.
C8_CacheSlotValid ==
  AtInverseMap => (coarse_element # NULL /\ contains_point(coarse_element, p))

\* The element was just overwritten by a successful find_element.
C8_Witness ==
  /\ pc = "interp"
  /\ searched
  /\ coarse_element # InitialElement
  /\ contains_point(coarse_element, p)

\* C9 as stated: whenever inverse_map or shape run on the coarse side, the
\* element fe_coarse was last reinitialised for is the current remembered
\* element.
C9_ProjectorInSync == AtInverseMap => fe_coarse = coarse_element

\* The (e, gp) pairs in the order of the loops of lines 145 and 155.
PairAt(k) == <<(k - 1) \div NQp, (k - 1) % NQp>>

C10_SumState ==
  /\ \A k \in DOMAIN visited : visited[k] = PairAt(k)
  /\ pc \in {"fine_eval", "locate", "interp"} => Len(visited) = e * NQp + gp
  /\ reported # NotYet => Len(visited) = NElem * NQp

C10_SumStep ==
  /\ pc = "interp" =>
       /\ \E shape \in Weights :
            error' = error + JxW * (Interpolate(coarse_solution,
                                      coarse_nodes(coarse_element),
                                      Len(coarse_var_names), ivar, shape) - fine_soln)
                                 * (Interpolate(coarse_solution,
                                      coarse_nodes(coarse_element),
                                      Len(coarse_var_names), ivar, shape) - fine_soln)
       /\ visited' = Append(visited, <<e, gp>>)
       /\ JxW >= 0 => error' >= error
  /\ pc = "report" => (error' = ISqrt(error) /\ reported' = <<error'>>)
  /\ pc \notin {"interp", "report", "pass_init"} =>
       (error' = error /\ visited' = visited /\ reported' = reported)

\* C10: each (fine element, quadrature point) pair adds exactly one
\* JxW*(coarse_soln - fine_soln)^2 to the sum, the pairs coming in index
\* order; the square root of the sum is reported only after every pair has
\* contributed; a non-negative weight never decreases the sum.
C10_OneContributionPerPair == [] C10_SumState /\ [][C10_SumStep]_vars

\* The error of a pass whose every pair contributed 1 was reported.
C10_Witness ==
  /\ pc = "nodal_init"
  /\ Len(visited) = NElem * NQp
  /\ reported = <<ISqrt(NElem * NQp)>>

\* C11 as stated: for every ivar, every field-vector access of both passes
\* has an index that is non-negative and smaller than the length of the
\* vector indexed.
C11_IndicesInRange == AllInRange

\* What holds of the accesses for every ivar: those of the nodal pass, at
\* gn*nv + c, are in range, and so are those of the error-metric pass when
\* 0 <= ivar < nv.
InRangeForValidIvar ==
  (pc = "node_interp" \/ (0 <= ivar /\ ivar < Len(fine_var_names))) => AllInRange

\* The point of the last call is closer to the origin, by more than 1%, than
\* every base node: 1.01 |p - o|^2 < |point(i) - o|^2 for i = 0..3.
WithinEnvelope ==
  \A i \in 0 .. 3 :
    101 * norm_sq(Minus(query, my_origin)) < 100 * norm_sq(Minus(point[i], my_origin))

\* C12: contains_point(p, tol) returns false without calling inverse_map
\* whenever 1.01 times the squared distance of p from the origin is less than
\* the smallest squared distance of the base nodes 0..3 from the origin; in
\* every other case it calls inverse_map(p) with tol once and returns
\* on_reference_element of the mapped point with the same tolerance.
C12_ContainsPoint ==
  contained # NotYet =>
    IF WithinEnvelope
      THEN contained = <<FALSE>> /\ inverse_map_calls = <<>>
      ELSE /\ inverse_map_calls = << <<query, tol>> >>
           /\ contained = <<on_reference_element(mapped_point, tol)>>

\* A point closer to the origin than every base node, but by less than 1%,
\* was handed to inverse_map, and found on the reference element thanks to
\* the tolerance.
C12_Witness ==
  /\ contained = <<TRUE>>
  /\ ~WithinEnvelope
  /\ \A i \in 0 .. 3 : norm_sq(Minus(query, my_origin)) < norm_sq(Minus(point[i], my_origin))
  /\ inverse_map_calls = << <<query, tol>> >>
  /\ ~on_reference_element(mapped_point, 0)

\* C13 as stated: after a call of nc_settings or nc_settings_all, the first
\* or one that follows nc_settings_reclaim, the map is non-null, every key and
\* value slot before its terminating NULL has been assigned by parseline, and
\* the lookup loop has read assigned entries only.
C13_MapAssigned ==
  returned.kind \in {"value", "NULL", "fault", "all"} =>
    /\ map # <<>>
    /\ \A i \in 1 .. Len(map[1]) - 1 : map[1][i].state = "string"
    /\ map[1][Len(map[1])].state = "null"
    /\ ~returned.stray

\* What holds where the allocation succeeded and every key line has a ':'.
MapAssignedWhenWellFormed ==
  (/\ returned.kind \in {"value", "NULL", "fault", "all"}
   /\ map # <<>>
   /\ \A i \in 1 .. Len(ncsettings_text) :
        iskeyline(preprocess(ncsettings_text)[i]) =>
          strchr(preprocess(ncsettings_text)[i], ":") # 0)
    => /\ \A i \in 1 .. Len(map[1]) - 1 : map[1][i].state = "string"
       /\ map[1][Len(map[1])].state = "null"
       /\ ~returned.stray

====
